---- MODULE Spec2Model ----
(***************************************************************************)
(* Model of the POV-Ray scene editor (src/Streamlit/pov-edit-win.py).      *)
(*                                                                         *)
(* A state of the model is the state of one Streamlit session between two  *)
(* runs of main(): the session's PovrayScene, the Python heap cells that   *)
(* the scene and the module-level DEMO_SCENES catalog refer to (camera     *)
(* dicts and light lists, which Python shares by reference), the scene     *)
(* text shown in the text area, the temporary files on disk, the saved     *)
(* JSON file and the file held by the uploader widget.  One step is one    *)
(* complete run of main() for one user event.                              *)
(*                                                                         *)
(* Widgets are outside the source: st.slider is taken to return its value  *)
(* argument unless the user moved it, st.button to be true for the one     *)
(* button that caused the run.                                             *)
(***************************************************************************)
EXTENDS Integers, Sequences, FiniteSets, TLC

(***************************************************************************)
(* Bounds of the model.                                                    *)
(***************************************************************************)
MaxSteps == 3
MaxLights == 4
MaxObjects == 4

(***************************************************************************)
(* Python values.  A number is an int or a float; floats are kept in       *)
(* tenths so that 0.8 is FltN(8) and float(10) = 10.0 is FltN(100).        *)
(* A vector is a tuple or a list of numbers.                               *)
(***************************************************************************)
None == "<None>"

IntN(n) == [t |-> "int", v |-> n]

FltN(tenths) == [t |-> "float", v |-> tenths]

float(x) == IF x.t = "int" THEN FltN(10 * x.v) ELSE x

Abs(n) == IF n < 0 THEN -n ELSE n

str(x) ==
    IF x.t = "int"
    THEN ToString(x.v)
    ELSE (IF x.v < 0 THEN "-" ELSE "") \o ToString(Abs(x.v) \div 10)
         \o "." \o ToString(Abs(x.v) % 10)

Tup(a, b, c) == [k |-> "tuple", e |-> <<a, b, c>>]

Lst(es) == [k |-> "list", e |-> es]

ITup(a, b, c) == Tup(IntN(a), IntN(b), IntN(c))

FTup(a, b, c) == Tup(FltN(a), FltN(b), FltN(c))

\* v[0], v[1], v[2] are all readable
HasThree(v) == Len(v.e) >= 3

(***************************************************************************)
(* Generated text: a sequence of lines.  A line carries its text and the   *)
(* directive keyword it starts with.                                       *)
(***************************************************************************)
Line(kw, s) == [kw |-> kw, s |-> s]

Blank == Line("blank", "")

Angle(v) == "<" \o str(v.e[1]) \o ", " \o str(v.e[2]) \o ", " \o str(v.e[3]) \o ">"

Truthy(texture) == texture # None /\ texture # ""

(***************************************************************************)
(* class PovrayObject                                                      *)
(***************************************************************************)
ObjectKeys == {"obj_type", "position", "rotation", "scale", "color", "texture"}

ObjectDefaults ==
    [position |-> ITup(0, 0, 0), rotation |-> ITup(0, 0, 0),
     scale |-> ITup(1, 1, 1), color |-> ITup(1, 1, 1), texture |-> None]

\* PovrayObject(obj_type, position=..., ...) with the widget values
PovrayObject(obj_type, position, rotation, scale, color, texture) ==
    [obj_type |-> obj_type, position |-> position, rotation |-> rotation,
     scale |-> scale, color |-> color, texture |-> texture]

\* to_pov with the pigment line emitted whether or not a texture is set
Object_to_pov_AlwaysPigment(self) ==
    IF ~(HasThree(self.position) /\ HasThree(self.rotation) /\ HasThree(self.scale))
    THEN [ok |-> FALSE, err |-> "IndexError", text |-> << >>]
    ELSE IF ~HasThree(self.color)
    THEN [ok |-> FALSE, err |-> "IndexError", text |-> << >>]
    ELSE [ok |-> TRUE, err |-> "none", text |->
            << Line("object", "object {"),
               Line("shape", "    " \o self.obj_type),
               Line("translate", "    translate " \o Angle(self.position)),
               Line("rotate", "    rotate " \o Angle(self.rotation)),
               Line("scale", "    scale " \o Angle(self.scale)) >>
            \o (IF Truthy(self.texture)
                THEN << Line("texture", "    texture { " \o self.texture \o " }") >>
                ELSE << >>)
            \o << Line("pigment", "    pigment { color rgb " \o Angle(self.color) \o " }"),
                  Line("close", "}") >>]

Object_to_pov(self) ==
    IF ~(HasThree(self.position) /\ HasThree(self.rotation) /\ HasThree(self.scale))
    THEN [ok |-> FALSE, err |-> "IndexError", text |-> << >>]
    ELSE IF ~Truthy(self.texture) /\ ~HasThree(self.color)
    THEN [ok |-> FALSE, err |-> "IndexError", text |-> << >>]
    ELSE [ok |-> TRUE, err |-> "none", text |->
            << Line("object", "object {"),
               Line("shape", "    " \o self.obj_type),
               Line("translate", "    translate " \o Angle(self.position)),
               Line("rotate", "    rotate " \o Angle(self.rotation)),
               Line("scale", "    scale " \o Angle(self.scale)),
               IF Truthy(self.texture)
               THEN Line("texture", "    texture { " \o self.texture \o " }")
               ELSE Line("pigment", "    pigment { color rgb " \o Angle(self.color) \o " }"),
               Line("close", "}") >>]

\* to_dict without the texture member
Object_to_dict_DropsTexture(self) ==
    [obj_type |-> self.obj_type, position |-> self.position,
     rotation |-> self.rotation, scale |-> self.scale, color |-> self.color]

Object_to_dict(self) ==
    [obj_type |-> self.obj_type, position |-> self.position,
     rotation |-> self.rotation, scale |-> self.scale,
     color |-> self.color, texture |-> self.texture]

\* cls(**data): unknown or missing obj_type keyword is a TypeError, every
\* other missing keyword takes the constructor's default
Object_from_dict(data) ==
    IF ~(DOMAIN data \subseteq ObjectKeys) \/ "obj_type" \notin DOMAIN data
    THEN [ok |-> FALSE, err |-> "TypeError", obj |-> << >>]
    ELSE [ok |-> TRUE, err |-> "none", obj |->
            [f \in ObjectKeys |->
                IF f \in DOMAIN data THEN data[f] ELSE ObjectDefaults[f]]]

(***************************************************************************)
(* The Python heap.  A PovrayScene holds references to its camera dict and *)
(* to its lights list; cams and lists map the live cells to their          *)
(* contents.  The light dicts of a list are held by that list alone, so a  *)
(* list cell holds them by value; PovrayObject instances are never         *)
(* assigned to after construction and are held by value too.               *)
(***************************************************************************)
Fresh(used) ==
    CHOOSE n \in 1..(Cardinality(used) + 1) :
        n \notin used /\ \A k \in 1..(n - 1) : k \in used

DefaultCamera == [location |-> ITup(0, 0, -10), look_at |-> ITup(0, 0, 0)]

\* PovrayScene(): a new scene with its own camera dict and its own empty list
PovrayScene_init(h) ==
    LET c == Fresh(DOMAIN h.cams)
        l == Fresh(DOMAIN h.lists)
    IN  [h |-> [cams |-> h.cams @@ (c :> DefaultCamera),
                lists |-> h.lists @@ (l :> << >>)],
         scene |-> [camera |-> c, lights |-> l, objects |-> << >>]]

\* what an observer of the scene reads: the cells' contents
View(h, scene) ==
    [camera |-> h.cams[scene.camera],
     lights |-> h.lists[scene.lights],
     objects |-> scene.objects]

(***************************************************************************)
(* DEMO_SCENES: the module-level catalog.  Its camera dicts live at cam    *)
(* addresses 1 and 2 and its light lists at list addresses 1 and 2.        *)
(***************************************************************************)
DemoNames == {"Three Platonic Solids", "Studio Setup"}

DemoCameras ==
    (1 :> [location |-> ITup(8, 6, -10), look_at |-> ITup(0, 0, 0)]) @@
    (2 :> [location |-> ITup(0, 5, -15), look_at |-> ITup(0, 0, 0)])

DemoLights ==
    (1 :> << [position |-> ITup(10, 10, -10), color |-> ITup(1, 1, 1),
              intensity |-> FltN(10)],
             [position |-> ITup(-8, 5, -8), color |-> FTup(5, 5, 6),
              intensity |-> FltN(6)] >>) @@
    (2 :> << [position |-> ITup(10, 10, -5),
              color |-> Tup(IntN(1), FltN(9), FltN(8)), intensity |-> FltN(8)],
             [position |-> ITup(-8, 8, -8),
              color |-> Tup(FltN(8), FltN(8), IntN(1)), intensity |-> FltN(6)],
             [position |-> ITup(0, 3, -12), color |-> ITup(1, 1, 1),
              intensity |-> FltN(3)] >>)

DEMO_SCENES ==
    [name \in DemoNames |->
        IF name = "Three Platonic Solids"
        THEN [camera |-> 1, lights |-> 1, objects |->
                << [obj_type |-> "sphere", position |-> ITup(-2, 0, 0),
                    rotation |-> ITup(0, 0, 0), scale |-> ITup(1, 1, 1),
                    color |-> FTup(8, 2, 2), texture |-> "Chrome_Metal"],
                   [obj_type |-> "box", position |-> ITup(2, 0, 0),
                    rotation |-> ITup(45, 45, 0), scale |-> ITup(1, 1, 1),
                    color |-> FTup(2, 8, 2), texture |-> "Brushed_Aluminum"],
                   [obj_type |-> "cone", position |-> ITup(0, 2, 0),
                    rotation |-> ITup(0, 0, 0), scale |-> ITup(1, 2, 1),
                    color |-> FTup(2, 2, 8), texture |-> "Glass"] >>]
        ELSE [camera |-> 2, lights |-> 2, objects |-> << >>]]

\* the catalog as a reader of DEMO_SCENES sees it in heap h
Catalog(h) ==
    [name \in DemoNames |->
        [camera |-> h.cams[DEMO_SCENES[name].camera],
         lights |-> h.lists[DEMO_SCENES[name].lights],
         objects |-> DEMO_SCENES[name].objects]]

TEXTURES ==
    [name \in {"None", "Chrome_Metal", "Glass", "Brushed_Aluminum", "Brass_Metal",
               "Copper_Metal", "Gold_Metal", "Silver_Metal", "Polished_Chrome",
               "Mirror"} |-> IF name = "None" THEN None ELSE name]

(***************************************************************************)
(* class PovrayScene                                                       *)
(***************************************************************************)
\* self.objects.append(obj)
add_object(h, scene, obj) ==
    [h |-> h, scene |-> [scene EXCEPT !.objects = Append(@, obj)]]

\* self.lights.append({...}): the list cell itself grows
add_light(h, scene, position, color, intensity) ==
    [h |-> [h EXCEPT !.lists[scene.lights] =
                Append(@, [position |-> position, color |-> color,
                           intensity |-> intensity])],
     scene |-> scene]

CameraErr(cam) ==
    IF "location" \notin DOMAIN cam THEN "KeyError"
    ELSE IF ~HasThree(cam.location) THEN "IndexError"
    ELSE IF "look_at" \notin DOMAIN cam THEN "KeyError"
    ELSE IF ~HasThree(cam.look_at) THEN "IndexError"
    ELSE "none"

LightErr(light) ==
    IF "position" \notin DOMAIN light \/ "color" \notin DOMAIN light THEN "KeyError"
    ELSE IF ~HasThree(light.position) \/ ~HasThree(light.color) THEN "IndexError"
    ELSE IF "intensity" \notin DOMAIN light THEN "KeyError"
    ELSE "none"

CameraBlock(cam) ==
    << Line("camera", "camera {"),
       Line("location", "    location " \o Angle(cam.location)),
       Line("look_at", "    look_at " \o Angle(cam.look_at)),
       Line("close", "}"), Blank >>

LightBlock(light) ==
    << Line("light_source", "light_source {"),
       Line("light_position", "    " \o Angle(light.position)),
       Line("light_color", "    color rgb " \o Angle(light.color)),
       Line("intensity", "    intensity " \o str(light.intensity)),
       Line("close", "}"), Blank >>

RECURSIVE LightBlocks(_)
LightBlocks(lights) ==
    IF lights = << >> THEN [ok |-> TRUE, err |-> "none", text |-> << >>]
    ELSE IF LightErr(Head(lights)) # "none"
    THEN [ok |-> FALSE, err |-> LightErr(Head(lights)), text |-> << >>]
    ELSE LET rest == LightBlocks(Tail(lights))
         IN  IF rest.ok
             THEN [rest EXCEPT !.text = LightBlock(Head(lights)) \o @]
             ELSE rest

RECURSIVE ObjectBlocks(_)
ObjectBlocks(objects) ==
    IF objects = << >> THEN [ok |-> TRUE, err |-> "none", text |-> << >>]
    ELSE LET first == Object_to_pov(Head(objects))
         IN  IF ~first.ok THEN first
             ELSE LET rest == ObjectBlocks(Tail(objects))
                  IN  IF rest.ok
                      THEN [rest EXCEPT !.text = first.text \o << Blank >> \o @]
                      ELSE rest

Preamble ==
    << Line("include", "#include \"colors.inc\""),
       Line("include", "#include \"textures.inc\""),
       Line("include", "#include \"metals.inc\""),
       Line("include", "#include \"glass.inc\""), Blank,
       Line("global_settings", "global_settings { ambient_light rgb<0.1, 0.1, 0.1> }"),
       Blank >>

\* generate_scene with the object loop ahead of the light loop
generate_scene_ObjectsFirst(h, self) ==
    LET cam == h.cams[self.camera]
        lights == LightBlocks(h.lists[self.lights])
        objects == ObjectBlocks(self.objects)
    IN  IF CameraErr(cam) # "none"
        THEN [ok |-> FALSE, err |-> CameraErr(cam), text |-> << >>]
        ELSE IF ~lights.ok THEN lights
        ELSE IF ~objects.ok THEN objects
        ELSE [ok |-> TRUE, err |-> "none",
              text |-> Preamble \o CameraBlock(cam) \o objects.text \o lights.text]

generate_scene(h, self) ==
    LET cam == h.cams[self.camera]
        lights == LightBlocks(h.lists[self.lights])
        objects == ObjectBlocks(self.objects)
    IN  IF CameraErr(cam) # "none"
        THEN [ok |-> FALSE, err |-> CameraErr(cam), text |-> << >>]
        ELSE IF ~lights.ok THEN lights
        ELSE IF ~objects.ok THEN objects
        ELSE [ok |-> TRUE, err |-> "none",
              text |-> Preamble \o CameraBlock(cam) \o lights.text \o objects.text]

\* the record shares the scene's camera dict and lights list
Scene_to_dict(self) ==
    [camera |-> self.camera, lights |-> self.lights,
     objects |-> [i \in 1..Len(self.objects) |-> Object_to_dict(self.objects[i])]]

\* from_dict: scene = cls(), then the three assignments in order; the scene
\* built so far is returned with the error
Scene_from_dict(h, data) ==
    LET new == PovrayScene_init(h)
        s1 == [new.scene EXCEPT !.camera = data.camera]
        s2 == [s1 EXCEPT !.lights = data.lights]
        objs == [i \in 1..Len(data.objects) |-> Object_from_dict(data.objects[i])]
    IN  IF "camera" \notin DOMAIN data
        THEN [ok |-> FALSE, err |-> "KeyError", h |-> new.h, scene |-> new.scene]
        ELSE IF "lights" \notin DOMAIN data
        THEN [ok |-> FALSE, err |-> "KeyError", h |-> new.h, scene |-> s1]
        ELSE IF "objects" \notin DOMAIN data
        THEN [ok |-> FALSE, err |-> "KeyError", h |-> new.h, scene |-> s2]
        ELSE IF \E i \in 1..Len(data.objects) : ~objs[i].ok
        THEN [ok |-> FALSE, err |-> "TypeError", h |-> new.h, scene |-> s2]
        ELSE [ok |-> TRUE, err |-> "none", h |-> new.h,
              scene |-> [s2 EXCEPT !.objects =
                            [i \in 1..Len(data.objects) |-> objs[i].obj]]]

(***************************************************************************)
(* json.dump / json.load.  A file holds a tree of values with no sharing;  *)
(* tuples are written as arrays and read back as lists, every other value  *)
(* is read back as written.  Loading builds new cells.                     *)
(***************************************************************************)
VectorKeys == {"position", "rotation", "scale", "color", "location", "look_at"}

JsonDict(d) ==
    [key \in DOMAIN d |-> IF key \in VectorKeys THEN Lst(d[key].e) ELSE d[key]]

json_dump(h, d) ==
    [camera |-> JsonDict(h.cams[d.camera]),
     lights |-> [i \in 1..Len(h.lists[d.lights]) |-> JsonDict(h.lists[d.lights][i])],
     objects |-> [i \in 1..Len(d.objects) |-> JsonDict(d.objects[i])]]

json_load(h, content) ==
    LET c == Fresh(DOMAIN h.cams)
        l == Fresh(DOMAIN h.lists)
    IN  [h |-> [cams |-> IF "camera" \in DOMAIN content
                         THEN h.cams @@ (c :> content.camera) ELSE h.cams,
                lists |-> IF "lights" \in DOMAIN content
                          THEN h.lists @@ (l :> content.lights) ELSE h.lists],
         data |-> [key \in DOMAIN content |->
                     IF key = "camera" THEN c
                     ELSE IF key = "lights" THEN l
                     ELSE content[key]]]

NoFile == [nofile |-> TRUE]

\* save_scene(scene, filename)
save_scene(h, scene) == json_dump(h, Scene_to_dict(scene))

\* load_scene(filename)
load_scene(h, content) ==
    LET j == json_load(h, content) IN Scene_from_dict(j.h, j.data)

(***************************************************************************)
(* Temporary files.  NamedTemporaryFile(delete=False) creates a file with  *)
(* a name no existing file has.                                            *)
(***************************************************************************)
TempName(files, suffix) ==
    <<suffix, Fresh({n[2] : n \in {f \in files : f[1] = suffix}})>>

RenderOutcomes == {"ok", "CalledProcessError", "write_error", "image_error"}

\* render_povray(scene_content, output_path): the files left on disk, whether
\* output_path is returned (None after the handled CalledProcessError, which
\* a non-zero exit and an unavailable binary under shell=True both raise) and
\* the exception that leaves the function, if any.  A failed write leaves
\* the with block before the try statement is entered.
render_povray(files, scene_content, output_path, outcome) ==
    LET scene_file == TempName(files, ".pov")
    IN  IF outcome = "write_error"
        THEN [files |-> files \cup {scene_file}, rendered |-> FALSE,
              exc |-> "OSError", created |-> {scene_file}]
        ELSE IF outcome = "CalledProcessError"
        THEN [files |-> (files \cup {scene_file}) \ {scene_file},
              rendered |-> FALSE, exc |-> "none", created |-> {scene_file}]
        ELSE [files |-> (files \cup {scene_file}) \ {scene_file},
              rendered |-> TRUE, exc |-> "none", created |-> {scene_file}]

(***************************************************************************)
(* main(): one run of the script.  m is the session as the run goes on:    *)
(* the heap h, the scene, the text area, the files, and exc, the exception *)
(* that ended the run ("none" while it is still running).  ev is the user  *)
(* event that caused the run.  The Phase operators are the blocks of       *)
(* main() in source order; a block does nothing once the run has ended.    *)
(***************************************************************************)

\* if demo_scene != "Custom" and st.button("Load Demo")
PhaseLoadDemo(m, ev) ==
    IF m.exc # "none" \/ ev.kind # "demo" THEN m
    ELSE LET r == Scene_from_dict(m.h, DEMO_SCENES[ev.name])
         IN  IF r.ok THEN [m EXCEPT !.h = r.h, !.scene = r.scene]
             ELSE [m EXCEPT !.exc = r.err]

\* if st.button("Add Object")
PhaseAddObject(m, ev) ==
    IF m.exc # "none" \/ ev.kind # "add_object" THEN m
    ELSE LET new_obj == PovrayObject(ev.obj.obj_type, ev.obj.position,
                                     ev.obj.rotation, ev.obj.scale, ev.obj.color,
                                     TEXTURES[ev.obj.texture])
             r == add_object(m.h, m.scene, new_obj)
         IN  [m EXCEPT !.h = r.h, !.scene = r.scene]

\* generation that uses up the object list it walks
PhaseGenerateConsumes(m) ==
    IF m.exc # "none" THEN m
    ELSE LET g == generate_scene(m.h, m.scene)
         IN  IF g.ok THEN [m EXCEPT !.scene_code = g.text, !.scene.objects = << >>]
             ELSE [m EXCEPT !.exc = g.err]

\* scene_code = st.session_state.scene.generate_scene()
PhaseGenerate(m) ==
    IF m.exc # "none" THEN m
    ELSE LET g == generate_scene(m.h, m.scene)
         IN  IF g.ok THEN [m EXCEPT !.scene_code = g.text]
             ELSE [m EXCEPT !.exc = g.err]

\* a Render Scene that starts over with an empty scene when rendering fails
PhaseRenderResets(m, ev) ==
    IF m.exc # "none" \/ ev.kind # "render" THEN m
    ELSE LET output_path == TempName(m.tmpfiles, ".png")
             r == render_povray(m.tmpfiles \cup {output_path}, m.scene_code,
                                output_path, ev.outcome)
             made == r.created \cup {output_path}
             new == PovrayScene_init(m.h)
         IN  IF r.exc # "none"
             THEN [m EXCEPT !.tmpfiles = r.files, !.render_files = made,
                            !.render_status = "exception", !.exc = r.exc]
             ELSE IF ~r.rendered
             THEN [m EXCEPT !.tmpfiles = r.files, !.render_files = made,
                            !.render_status = "error",
                            !.h = new.h, !.scene = new.scene]
             ELSE IF ev.outcome = "image_error"
             THEN [m EXCEPT !.tmpfiles = r.files \ {output_path},
                            !.render_files = made,
                            !.render_status = "exception",
                            !.exc = "UnidentifiedImageError"]
             ELSE [m EXCEPT !.tmpfiles = r.files \ {output_path},
                            !.render_files = made, !.render_status = "image"]

\* if st.button("Render Scene")
PhaseRender(m, ev) ==
    IF m.exc # "none" \/ ev.kind # "render" THEN m
    ELSE LET output_path == TempName(m.tmpfiles, ".png")
             r == render_povray(m.tmpfiles \cup {output_path}, m.scene_code,
                                output_path, ev.outcome)
             made == r.created \cup {output_path}
         IN  IF r.exc # "none"
             THEN [m EXCEPT !.tmpfiles = r.files, !.render_files = made,
                            !.render_status = "exception", !.exc = r.exc]
             ELSE IF ~r.rendered
             THEN [m EXCEPT !.tmpfiles = r.files, !.render_files = made,
                            !.render_status = "error"]
             ELSE IF ev.outcome = "image_error"
             THEN [m EXCEPT !.tmpfiles = r.files \ {output_path},
                            !.render_files = made,
                            !.render_status = "exception",
                            !.exc = "UnidentifiedImageError"]
             ELSE [m EXCEPT !.tmpfiles = r.files \ {output_path},
                            !.render_files = made, !.render_status = "image"]

\* the camera sliders and if st.button("Update Camera"); with the sliders
\* untouched they return float(location[0]) and the other five values as is
PhaseCamera(m, ev) ==
    IF m.exc # "none" \/ ev.kind # "camera" THEN m
    ELSE LET old == m.h.cams[m.scene.camera]
             new == IF ev.sliders = "untouched"
                    THEN [location |-> Tup(float(old.location.e[1]),
                                           old.location.e[2], old.location.e[3]),
                          look_at |-> Tup(old.look_at.e[1], old.look_at.e[2],
                                          old.look_at.e[3])]
                    ELSE [location |-> ev.location, look_at |-> ev.look_at]
             c == Fresh(DOMAIN m.h.cams)
         IN  [m EXCEPT !.h.cams = @ @@ (c :> new), !.scene.camera = c]

\* if st.button("Add Light")
PhaseAddLight(m, ev) ==
    IF m.exc # "none" \/ ev.kind # "add_light" THEN m
    ELSE LET r == add_light(m.h, m.scene, ITup(5, 5, -5), ITup(1, 1, 1), FltN(10))
         IN  [m EXCEPT !.h = r.h, !.scene = r.scene]

\* one pass of the loop body of the light controls: the three fields of the
\* light dict are assigned from the sliders
LightControls(light, i, ev) ==
    LET moved(field) == ev.kind = "light" /\ ev.i = i /\ ev.field = field
        pos == light.position
        col == light.color
    IN  [light EXCEPT
            !.position = IF moved("position") THEN ev.value
                         ELSE Tup(float(pos.e[1]), float(pos.e[2]), float(pos.e[3])),
            !.intensity = IF moved("intensity") THEN ev.value ELSE float(@),
            !.color = IF moved("color") THEN ev.value
                      ELSE Tup(col.e[1], col.e[2], col.e[3])]

\* for i, light in enumerate(st.session_state.scene.lights)
PhaseLights(m, ev) ==
    IF m.exc # "none" THEN m
    ELSE [m EXCEPT !.h.lists[m.scene.lights] =
            [i \in 1..Len(@) |-> LightControls(@[i], i, ev)]]

\* if st.button("Save Scene")
PhaseSave(m, ev) ==
    IF m.exc # "none" \/ ev.kind # "save" THEN m
    ELSE [m EXCEPT !.saved = save_scene(m.h, m.scene)]

\* a load that assigns the scene built so far when decoding fails
PhaseLoadPartial(m) ==
    IF m.exc # "none" \/ m.uploaded = NoFile THEN m
    ELSE LET temp_path == TempName(m.tmpfiles, ".json")
             r == load_scene(m.h, m.uploaded)
             files == (m.tmpfiles \cup {temp_path}) \ {temp_path}
         IN  IF r.ok
             THEN [m EXCEPT !.h = r.h, !.scene = r.scene, !.tmpfiles = files,
                            !.load_status = "success"]
             ELSE [m EXCEPT !.h = r.h, !.scene = r.scene, !.tmpfiles = files,
                            !.load_status = "error"]

\* if uploaded_file is not None: the upload is copied to a temporary file,
\* loaded, and the temporary file is unlinked whatever happened
PhaseLoad(m) ==
    IF m.exc # "none" \/ m.uploaded = NoFile THEN m
    ELSE LET temp_path == TempName(m.tmpfiles, ".json")
             r == load_scene(m.h, m.uploaded)
             files == (m.tmpfiles \cup {temp_path}) \ {temp_path}
         IN  IF r.ok
             THEN [m EXCEPT !.h = r.h, !.scene = r.scene, !.tmpfiles = files,
                            !.load_status = "success"]
             ELSE [m EXCEPT !.tmpfiles = files, !.load_status = "error"]

\* cells that neither the session's scene nor DEMO_SCENES refers to are freed
Collect(m) ==
    LET liveCams == {m.scene.camera} \cup {DEMO_SCENES[n].camera : n \in DemoNames}
        liveLists == {m.scene.lights} \cup {DEMO_SCENES[n].lights : n \in DemoNames}
    IN  [m EXCEPT !.h = [cams |-> [a \in liveCams |-> m.h.cams[a]],
                         lists |-> [a \in liveLists |-> m.h.lists[a]]]]

main(m, ev) ==
    Collect(PhaseLoad(PhaseSave(PhaseLights(PhaseAddLight(PhaseCamera(
        PhaseRender(PhaseGenerate(PhaseAddObject(PhaseLoadDemo(m, ev), ev)), ev),
        ev), ev), ev), ev)))

(***************************************************************************)
(* User inputs: the widget values the model draws from.                    *)
(***************************************************************************)
IList(a, b, c) == Lst(<<IntN(a), IntN(b), IntN(c)>>)

ObjectInputs ==
    { [obj_type |-> "sphere", position |-> FTup(-20, 0, 0), rotation |-> FTup(0, 0, 0),
       scale |-> FTup(10, 10, 10), color |-> FTup(8, 2, 2), texture |-> "None"],
      [obj_type |-> "box", position |-> FTup(20, 0, 0), rotation |-> FTup(450, 0, 0),
       scale |-> FTup(10, 20, 10), color |-> FTup(2, 8, 2), texture |-> "Chrome_Metal"] }

CameraInputs ==
    { [sliders |-> "untouched"],
      [sliders |-> "moved", location |-> FTup(80, 60, -100), look_at |-> FTup(0, 10, 0)] }

LightInputs ==
    { [field |-> "position", value |-> FTup(10, 20, -30)],
      [field |-> "color", value |-> FTup(10, 5, 0)],
      [field |-> "intensity", value |-> FltN(15)] }

\* files a user may upload: well-formed and malformed records
FileCamera == [location |-> IList(0, 5, -15), look_at |-> IList(0, 0, 0)]

FileLight == [position |-> IList(5, 5, -5), color |-> IList(1, 1, 1), intensity |-> FltN(10)]

FileObject ==
    [obj_type |-> "sphere", position |-> IList(1, 2, 3), rotation |-> IList(0, 90, 0),
     scale |-> IList(2, 2, 2), color |-> IList(1, 0, 0), texture |-> None]

RecGood == [camera |-> FileCamera, lights |-> <<FileLight>>, objects |-> <<FileObject>>]

RecNoCamera == [lights |-> <<FileLight>>, objects |-> <<FileObject>>]

RecNoLights == [camera |-> FileCamera, objects |-> <<FileObject>>]

RecNoObjects == [camera |-> FileCamera, lights |-> <<FileLight>>]

\* three primitive records, missing position, rotation and scale in turn
RecNoGeometry ==
    [camera |-> FileCamera, lights |-> <<FileLight>>, objects |->
        << [key \in ObjectKeys \ {"position"} |-> FileObject[key]],
           [key \in ObjectKeys \ {"rotation"} |-> FileObject[key]],
           [key \in ObjectKeys \ {"scale"} |-> FileObject[key]] >>]

\* a position of two components
RecShortVector ==
    [camera |-> FileCamera, lights |-> <<FileLight>>, objects |->
        << [FileObject EXCEPT !.position = Lst(<<IntN(1), IntN(2)>>)] >>]

\* the second primitive record has no obj_type
RecBadSecondObject ==
    [camera |-> FileCamera, lights |-> <<FileLight>>, objects |->
        << FileObject, [key \in ObjectKeys \ {"obj_type"} |-> FileObject[key]] >>]

MalformedFiles ==
    {RecNoCamera, RecNoLights, RecNoObjects, RecNoGeometry, RecShortVector,
     RecBadSecondObject}

(***************************************************************************)
(* The session.                                                            *)
(***************************************************************************)
VARIABLES
    scene,          \* st.session_state.scene: references to its cells, its objects
    cams,           \* heap: camera dicts
    lists,          \* heap: light lists
    scene_code,     \* the text last generated for the text area
    tmpfiles,       \* temporary files on disk
    render_files,   \* the temporary files the last run's Render Scene created
    render_status,  \* what the last run's Render Scene showed
    saved,          \* the JSON file written by Save Scene
    uploaded,       \* the file held by the st.file_uploader widget
    load_status,    \* st.success / st.error of the last run's load
    exc,            \* the exception that ended the last run of main()
    last_op,        \* the event of the last run
    steps           \* runs so far

vars == <<scene, cams, lists, scene_code, tmpfiles, render_files, render_status,
          saved, uploaded, load_status, exc, last_op, steps>>

Heap == [cams |-> cams, lists |-> lists]

Session ==
    [h |-> Heap, scene |-> scene, scene_code |-> scene_code, tmpfiles |-> tmpfiles,
     render_files |-> render_files, render_status |-> render_status,
     saved |-> saved, uploaded |-> uploaded, load_status |-> load_status, exc |-> exc]

\* the first run: 'scene' not in st.session_state, no button pressed
FirstRun ==
    LET new == PovrayScene_init([cams |-> DemoCameras, lists |-> DemoLights])
    IN  main([h |-> new.h, scene |-> new.scene, scene_code |-> << >>,
              tmpfiles |-> {}, render_files |-> {}, render_status |-> "none",
              saved |-> NoFile, uploaded |-> NoFile, load_status |-> "none",
              exc |-> "none"],
             [kind |-> "rerun"])

Install(m) ==
    /\ scene = m.scene
    /\ cams = m.h.cams
    /\ lists = m.h.lists
    /\ scene_code = m.scene_code
    /\ tmpfiles = m.tmpfiles
    /\ render_files = m.render_files
    /\ render_status = m.render_status
    /\ saved = m.saved
    /\ uploaded = m.uploaded
    /\ load_status = m.load_status
    /\ exc = m.exc

Init == Install(FirstRun) /\ last_op = "start" /\ steps = 0

InstallNext(m) ==
    /\ scene' = m.scene
    /\ cams' = m.h.cams
    /\ lists' = m.h.lists
    /\ scene_code' = m.scene_code
    /\ tmpfiles' = m.tmpfiles
    /\ render_files' = m.render_files
    /\ render_status' = m.render_status
    /\ saved' = m.saved
    /\ uploaded' = m.uploaded
    /\ load_status' = m.load_status
    /\ exc' = m.exc

\* a run of main() caused by event ev
Run(ev) ==
    /\ steps < MaxSteps
    /\ LET start == [Session EXCEPT !.exc = "none", !.load_status = "none",
                                    !.render_status = "none", !.render_files = {},
                                    !.uploaded = IF ev.kind = "upload" THEN ev.content
                                                 ELSE IF ev.kind = "clear" THEN NoFile
                                                 ELSE @]
       IN  InstallNext(main(start, ev))
    /\ last_op' = ev.kind
    /\ steps' = steps + 1

Rerun == Run([kind |-> "rerun"])

LoadDemo(name) == Run([kind |-> "demo", name |-> name])

AddObject(obj) ==
    /\ Len(scene.objects) < MaxObjects
    /\ Run([kind |-> "add_object", obj |-> obj])

RenderScene(outcome) == Run([kind |-> "render", outcome |-> outcome])

UpdateCamera(input) == Run([kind |-> "camera"] @@ input)

AddLight ==
    /\ Len(lists[scene.lights]) < MaxLights
    /\ Run([kind |-> "add_light"])

MoveLightSlider(i, input) ==
    /\ i \in 1..Len(lists[scene.lights])
    /\ Run([kind |-> "light", i |-> i] @@ input)

SaveScene == Run([kind |-> "save"])

UploadFile(content) == Run([kind |-> "upload", content |-> content])

ClearUpload == uploaded # NoFile /\ Run([kind |-> "clear"])

Next ==
    \/ Rerun
    \/ \E name \in DemoNames : LoadDemo(name)
    \/ \E obj \in ObjectInputs : AddObject(obj)
    \/ \E outcome \in RenderOutcomes : RenderScene(outcome)
    \/ \E input \in CameraInputs : UpdateCamera(input)
    \/ AddLight
    \/ \E i \in 1..MaxLights, input \in LightInputs : MoveLightSlider(i, input)
    \/ SaveScene
    \/ \E content \in MalformedFiles \cup {RecGood} \cup ({saved} \ {NoFile}) :
            UploadFile(content)
    \/ ClearUpload

Spec == Init /\ [][Next]_vars

(***************************************************************************)
(* Properties.                                                             *)
(***************************************************************************)
Lights == lists[scene.lights]

Camera == cams[scene.camera]

\* numeric reading of a number, a vector, a light: 10 and 10.0 are the same
\* value, and so are a tuple and a list of the same components
Val(x) == float(x).v

VecVal(v) == [i \in 1..Len(v.e) |-> Val(v.e[i])]

LightVal(light) ==
    [position |-> VecVal(light.position), color |-> VecVal(light.color),
     intensity |-> Val(light.intensity)]

LightsVal(ls) == [i \in 1..Len(ls) |-> LightVal(ls[i])]

CameraVal(cam) == [location |-> VecVal(cam.location), look_at |-> VecVal(cam.look_at)]

\* C1: decoding the encoding of the session's scene gives back the same
\* camera, the same lights in order and the same objects in order, field by
\* field; and a saved file, loaded and saved again, is the same file.
C1_RoundTrip ==
    LET r == Scene_from_dict(Heap, Scene_to_dict(scene))
        file == save_scene(Heap, scene)
        back == load_scene(Heap, file)
    IN  /\ r.ok
        /\ View(r.h, r.scene).camera = Camera
        /\ View(r.h, r.scene).lights = Lights
        /\ Len(r.scene.objects) = Len(scene.objects)
        /\ \A i \in 1..Len(scene.objects) :
              \A f \in ObjectKeys : r.scene.objects[i][f] = scene.objects[i][f]
        /\ back.ok
        /\ save_scene(back.h, back.scene) = file

C1_Witness ==
    /\ last_op = "save"
    /\ saved = save_scene(Heap, scene)
    /\ Len(Lights) >= 2
    /\ \E i \in 1..Len(scene.objects) : scene.objects[i].texture = None
    /\ \E i \in 1..Len(scene.objects) : scene.objects[i].texture # None

\* C2: a load of a malformed file (camera, lights or objects absent, a
\* primitive record without position, rotation or scale, a vector of two
\* components) never succeeds.
C2_MalformedRejected ==
    uploaded \in MalformedFiles => load_status # "success"

\* C3: a run that only attempts a load, and fails, leaves the session with
\* the scene it had: the same scene object, the same camera, the same light
\* values, the same objects.
C3_FailedLoadInstallsNothing ==
    [][(load_status' = "error" /\ last_op' \in {"upload", "rerun"}) =>
          /\ scene' = scene
          /\ cams'[scene.camera] = Camera
          /\ LightsVal(lists'[scene.lights]) = LightsVal(Lights)]_vars

C3_Witness ==
    /\ load_status = "error"
    /\ uploaded = RecBadSecondObject
    /\ Len(scene.objects) > 0
    /\ Len(Lights) > 0

\* C4: after a run in which Render Scene was pressed, none of the temporary
\* files it created exists.
C4_TempFilesRemoved ==
    last_op = "render" => render_files \cap tmpfiles = {}

\* C5: every entry of DEMO_SCENES has the camera, lights and objects it was
\* defined with.
C5_CatalogReadOnly ==
    \A name \in DemoNames :
        LET entry == Catalog(Heap)[name]
        IN  /\ CameraVal(entry.camera) = CameraVal(DemoCameras[DEMO_SCENES[name].camera])
            /\ LightsVal(entry.lights) = LightsVal(DemoLights[DEMO_SCENES[name].lights])
            /\ entry.objects = DEMO_SCENES[name].objects

\* the positions in text of the lines with keyword kw, and the i-th of them
LinesOf(text, kw) == {n \in 1..Len(text) : text[n].kw = kw}

Nth(S, i) == CHOOSE n \in S : Cardinality({k \in S : k < n}) = i - 1

\* C6: the generated document is the include preamble, the ambient-light
\* line, one camera block from location and look_at, then one light_source
\* block per light in list order, then one object block per object in list
\* order, and nothing else opens a block.
C6_DocumentLayout ==
    LET g == generate_scene(Heap, scene)
        text == g.text
        cameras == LinesOf(text, "camera")
        lightAt == LinesOf(text, "light_source")
        objectAt == LinesOf(text, "object")
    IN  g.ok =>
        /\ \A n \in 1..4 : text[n].kw = "include"
        /\ LinesOf(text, "include") = 1..4
        /\ LinesOf(text, "global_settings") = {6}
        /\ cameras = {8}
        /\ text[9].s = "    location " \o Angle(Camera.location)
        /\ text[10].s = "    look_at " \o Angle(Camera.look_at)
        /\ Cardinality(lightAt) = Len(Lights)
        /\ Cardinality(objectAt) = Len(scene.objects)
        /\ \A l \in lightAt : l > 8 /\ \A o \in objectAt : l < o
        /\ \A o \in objectAt : o > 8
        /\ \A i \in 1..Len(Lights) :
              /\ text[Nth(lightAt, i) + 1].s = "    " \o Angle(Lights[i].position)
              /\ text[Nth(lightAt, i) + 2].s = "    color rgb " \o Angle(Lights[i].color)
              /\ text[Nth(lightAt, i) + 3].s = "    intensity " \o str(Lights[i].intensity)
        /\ \A i \in 1..Len(scene.objects) :
              /\ text[Nth(objectAt, i) + 1].s = "    " \o scene.objects[i].obj_type
              /\ text[Nth(objectAt, i) + 2].s =
                    "    translate " \o Angle(scene.objects[i].position)

C6_Witness ==
    /\ exc = "none"
    /\ scene_code = generate_scene(Heap, scene).text
    /\ Len(Lights) >= 2
    /\ Len(scene.objects) >= 2
    /\ Lights[1] # Lights[2]
    /\ scene.objects[1] # scene.objects[2]

\* C7: the block of a primitive with a texture has a texture reference to
\* that material and no pigment line; the block of a primitive without one
\* has exactly one pigment line with its color as r, g, b and no texture
\* reference.
C7_TextureOverColor ==
    \A i \in 1..Len(scene.objects) :
        LET o == scene.objects[i]
            p == Object_to_pov(o)
        IN  p.ok =>
            IF o.texture # None
            THEN /\ LinesOf(p.text, "pigment") = {}
                 /\ \E n \in 1..Len(p.text) :
                        /\ LinesOf(p.text, "texture") = {n}
                        /\ p.text[n].s = "    texture { " \o o.texture \o " }"
            ELSE /\ LinesOf(p.text, "texture") = {}
                 /\ \E n \in 1..Len(p.text) :
                        /\ LinesOf(p.text, "pigment") = {n}
                        /\ p.text[n].s =
                              "    pigment { color rgb <" \o str(o.color.e[1]) \o ", "
                              \o str(o.color.e[2]) \o ", " \o str(o.color.e[3]) \o "> }"

C7_Witness ==
    /\ exc = "none"
    /\ last_op = "add_object"
    /\ scene_code = generate_scene(Heap, scene).text
    /\ \E i \in 1..Len(scene.objects) :
          /\ scene.objects[i].texture = "Chrome_Metal"
          /\ scene.objects[i].color # ObjectDefaults.color
    /\ \E i \in 1..Len(scene.objects) :
          /\ scene.objects[i].texture = None
          /\ scene.objects[i].color = FTup(8, 2, 2)

\* C8: a run in which Render Scene was pressed leaves the session's scene
\* with the camera, lights and objects it had, whatever the renderer did.
C8_RenderKeepsScene ==
    [][last_op' = "render" =>
          View([cams |-> cams', lists |-> lists'], scene') = View(Heap, scene)]_vars

C8_Witness ==
    /\ last_op = "render"
    /\ render_status = "error"
    /\ Len(Lights) > 0
    /\ Len(scene.objects) > 0

\* a scene of the data model: every vector has three components and every
\* record has its fields
IsVector3(v) == Len(v.e) = 3

WellFormed(view) ==
    /\ DOMAIN view.camera = {"location", "look_at"}
    /\ IsVector3(view.camera.location) /\ IsVector3(view.camera.look_at)
    /\ \A i \in 1..Len(view.lights) :
          /\ DOMAIN view.lights[i] = {"position", "color", "intensity"}
          /\ IsVector3(view.lights[i].position) /\ IsVector3(view.lights[i].color)
    /\ \A i \in 1..Len(view.objects) :
          \A f \in {"position", "rotation", "scale", "color"} :
              IsVector3(view.objects[i][f])

\* C9: generation succeeds on every well-formed scene; a run that does
\* nothing but regenerate leaves the scene as it was; and two such runs in a
\* row show the same text.
C9_GenerationPure ==
    /\ [](WellFormed(View(Heap, scene)) => generate_scene(Heap, scene).ok)
    /\ [][(last_op' = "rerun" /\ exc' = "none") =>
             View([cams |-> cams', lists |-> lists'], scene') = View(Heap, scene)]_vars
    /\ [][(last_op = "rerun" /\ last_op' = "rerun" /\ exc = "none" /\ exc' = "none") =>
             scene_code' = scene_code]_vars

C9_Witness ==
    /\ last_op = "rerun"
    /\ exc = "none"
    /\ WellFormed(View(Heap, scene))
    /\ scene_code = generate_scene(Heap, scene).text
    /\ Len(Lights) > 0
    /\ Len(scene.objects) > 0

\* C10: an editing run (add object, add light, update camera, move a light
\* slider) changes the value of no camera dict and no light list that
\* existed before it.
C10_NoInPlaceMutation ==
    [][last_op' \in {"add_object", "add_light", "camera", "light"} =>
          /\ \A a \in DOMAIN cams \cap DOMAIN cams' :
                CameraVal(cams'[a]) = CameraVal(cams[a])
          /\ \A a \in DOMAIN lists \cap DOMAIN lists' :
                LightsVal(lists'[a]) = LightsVal(lists[a])]_vars

====
